---- MODULE Spec2Model ----
(***************************************************************************)
(* ResearchLoop: the Pyodide execution service (ExecutionService in        *)
(* src/App.tsx, the version that caches initPromise and guards runPython   *)
(* with isExecuting), the orchestration loop that drives it                 *)
(* (handleFileUpload in src/App.tsx, ceiling 8) and handleReset.            *)
(*                                                                         *)
(* JavaScript runs one event-loop turn at a time: an action of this model  *)
(* is the synchronous code that runs from one suspension point (await) to  *)
(* the next.  The settling of a promise and the continuation of a caller   *)
(* that awaits it are separate actions.                                    *)
(***************************************************************************)
EXTENDS Integers, Sequences, FiniteSets, TLC

(* ------------------------------ bounds --------------------------------- *)
\* bootstraps (async bodies of init) the model lets the service start
MaxBoots == 3
\* independent clients of runPython (orchestration loops, manual re-verify)
NumCallers == 2

(* ---------------------------- vocabulary ------------------------------- *)
Null == 0
BootIds == 1 .. MaxBoots
Callers == 1 .. NumCallers

\* Error messages are sequences of words, so that String.includes is a
\* search for a contiguous run of words and not a lookup.
NoMessage == << >>
BusyMessage == << "Execution", "lock", "active", "." >>
NullDerefMessage == << "Cannot", "read", "properties", "of", "null" >>
UndefinedCodeMessage == << "Cannot", "read", "properties", "of", "undefined" >>
SyncThrowMessage == << "window", ".", "loadPyodide", "is", "not", "a", "function" >>
EngineLoadMessage == << "Failed", "to", "fetch", "pyodide", ".", "asm", ".", "js" >>
PackageLoadMessage == << "Failed", "to", "load", "numpy" >>

\* what pyodide.runPythonAsync can reject with (err.message; NoMessage: an
\* error object without a message)
HostMessages ==
  { NoMessage,
    << "RuntimeError", ":", "table", "index", "out", "of", "bounds" >>,
    << "Pyodide", "fatal", "error", "detected" >>,
    << "RecursionError", ":", "maximum", "recursion", "depth", "exceeded" >>,
    << "Fatal", "Error" >>,
    << "index", "out", "of", "bounds" >>,
    << "SyntaxError", ":", "invalid", "syntax" >> }

Includes(msg, pat) ==
  \E i \in 1 .. (Len(msg) - Len(pat) + 1) : SubSeq(msg, i, i + Len(pat) - 1) = pat

\* handleFatalError without the RecursionError test
IsFatalNoRecursion(msg) ==
  \/ Includes(msg, << "table", "index", "out", "of", "bounds" >>)
  \/ Includes(msg, << "fatal", "error" >>)

\* the condition of handleFatalError
IsFatal(msg) ==
  \/ Includes(msg, << "table", "index", "out", "of", "bounds" >>)
  \/ Includes(msg, << "fatal", "error" >>)
  \/ Includes(msg, << "RecursionError" >>)

\* err?.message || "Internal WASM crash"
OrDefault(msg) == IF msg = NoMessage THEN << "Internal WASM crash" >> ELSE msg

\* the outer catch without the prefix
FailureResultBare(msg) ==
  [kind |-> "value", passed |-> FALSE, logs |-> OrDefault(msg), variables |-> "undefined"]

\* the object runPython returns from its outer catch
FailureResult(msg) ==
  [kind |-> "value", passed |-> FALSE, logs |-> << "FATAL_ENGINE_ERROR: " >> \o OrDefault(msg),
   variables |-> "undefined"]

\* the lock test moved inside the try block: the outer catch turns it into a result
BusyReturned ==
  [kind |-> "value", passed |-> FALSE,
   logs |-> << "FATAL_ENGINE_ERROR: " >> \o BusyMessage, variables |-> "undefined"]

\* the rejection of runPython's promise by the throw before its try block
BusyRejection ==
  [kind |-> "rejected", passed |-> FALSE, logs |-> BusyMessage, variables |-> "undefined"]

NoResult == [kind |-> "none", passed |-> FALSE, logs |-> << >>, variables |-> "undefined"]

(* ------------------------- the driver script --------------------------- *)
\* A captured line: the tag it carries ("" for the program's own output)
\* and its text.
Line(tag, text) == [tag |-> tag, text |-> text]

\* What the guest code does: the candidate block and the test block each
\* either run cleanly or raise.
Behaviours == { "clean", "raises" }

\* The (code, tests) pairs given to runPython, named by what they do.
\*   clean       candidate and tests run without an exception
\*   failsTests  the candidate runs, an assertion of the tests fails
\*   raises      the candidate raises
\*   forges      the candidate prints the text of the final status line on
\*               stdout, then raises
\*   leavesMark  the candidate raises if the interpreter bears its mark (a
\*               file, a module attribute), else leaves the mark and runs on
Programs == { "clean", "failsTests", "raises", "forges", "leavesMark" }

NoGuest == [program |-> "none", cand |-> "none", tests |-> "none"]

\* What program p does in one run of the driver, on an interpreter that
\* bears the mark or not.  printed: what the candidate writes to stdout;
\* marks: it leaves the mark in the interpreter.
Guest(p, marked) ==
  CASE p = "clean" ->
         [cand |-> "clean", tests |-> "clean", printed |-> << >>, marks |-> FALSE,
          lingers |-> FALSE]
    [] p = "failsTests" ->
         [cand |-> "clean", tests |-> "raises", printed |-> << >>, marks |-> FALSE,
          lingers |-> FALSE]
    [] p = "raises" ->
         [cand |-> "raises", tests |-> "clean", printed |-> << >>, marks |-> FALSE,
          lingers |-> FALSE]
    [] p = "forges" ->
         [cand |-> "raises", tests |-> "clean",
          printed |-> << Line("RL_FINAL_STATUS", "SUCCESS") >>, marks |-> FALSE,
          lingers |-> FALSE]
    [] p = "lingers" ->
         [cand |-> "clean", tests |-> "clean", printed |-> << >>, marks |-> FALSE,
          lingers |-> TRUE]
    [] OTHER ->
         [cand |-> IF marked THEN "raises" ELSE "clean", tests |-> "clean",
          printed |-> << >>, marks |-> TRUE, lingers |-> FALSE]

\* The lines the capture holds after fullCode ran, in order, for a candidate
\* and tests; printed: the lines the candidate itself wrote to stdout.
\* print(traceback.format_exc()) ends the traceback with an empty line.  The
\* snapshot lists the locals of a candidate that ran to its end ("[vars]")
\* and is empty after a candidate that raised.
DriverOutput(cand, tests, printed) ==
  LET head == << Line("RL_STAGELOG", "INITIALIZING_CORE") >> \o printed
      tail(res, vars) ==
        << Line("RL_INSPECTOR_SNAPSHOT", vars),
           Line("RL_FINAL_STATUS", IF res THEN "SUCCESS" ELSE "FAILURE") >>
  IN  IF cand = "raises"
      THEN head \o << Line("RL_STAGELOG", "IMPLEMENTATION_ERROR"),
                      Line("", "Traceback: candidate"),
                      Line("", "") >> \o tail(FALSE, "[]")
      ELSE IF tests = "raises"
      THEN head \o << Line("RL_STAGELOG", "STARTING_TESTS"),
                      Line("RL_STAGELOG", "TEST_CRASH"),
                      Line("", "Traceback: tests"),
                      Line("", ""),
                      Line("RL_STAGELOG", "VERIFICATION_FAILED") >> \o tail(FALSE, "[vars]")
      ELSE head \o << Line("RL_STAGELOG", "STARTING_TESTS"),
                      Line("RL_STAGELOG", "CORE_LOGIC_VERIFIED") >> \o tail(TRUE, "[vars]")

RECURSIVE Untagged(_)
\* the three replace() calls, each with the g flag: every line that begins
\* with a tag is dropped with its line break, the rest is kept in order
Untagged(lines) ==
  IF lines = << >> THEN << >>
  ELSE IF Head(lines).tag = "" THEN << Head(lines).text >> \o Untagged(Tail(lines))
  ELSE Untagged(Tail(lines))

RECURSIVE TrimStart(_)
TrimStart(texts) ==
  IF texts # << >> /\ Head(texts) = "" THEN TrimStart(Tail(texts)) ELSE texts

RECURSIVE TrimEnd(_)
TrimEnd(texts) ==
  IF texts # << >> /\ texts[Len(texts)] = ""
  THEN TrimEnd(SubSeq(texts, 1, Len(texts) - 1))
  ELSE texts

\* .trim(): the empty lines at the start and at the end go
Trim(texts) == TrimEnd(TrimStart(texts))

\* cleanLogs without the replace() call for RL_FINAL_STATUS
CleanLogsKeepsStatus(lines) ==
  LET kept == SelectSeq(lines, LAMBDA l : l.tag \in { "", "RL_FINAL_STATUS" })
  IN  Trim([i \in 1 .. Len(kept) |-> kept[i].text])

\* cleanLogs: logs.replace(...).replace(...).replace(...).trim()
CleanLogs(lines) == Trim(Untagged(lines))

\* the success path of runPython after runPythonAsync resolved: passed, the
\* variables JSON.parse reads from the first snapshot line, the clean logs
ParseResult(lines) ==
  LET snapshots == { i \in 1 .. Len(lines) : lines[i].tag = "RL_INSPECTOR_SNAPSHOT" }
  IN  [kind |-> "value",
       passed |-> \E i \in 1 .. Len(lines) :
                    lines[i].tag = "RL_FINAL_STATUS" /\ lines[i].text = "SUCCESS",
       logs |-> CleanLogs(lines),
       variables |-> IF snapshots = { } THEN "[]"
                     ELSE lines[CHOOSE i \in snapshots : \A j \in snapshots : i <= j].text]

(* ------------------------------- state --------------------------------- *)
VARIABLES
  pyodide,      \* ExecutionService.pyodide: Null, or the engine bootstrap b loaded
  initPromise,  \* ExecutionService.initPromise: Null, or the promise of bootstrap b
  isExecuting,  \* ExecutionService.isExecuting
  isInitializing, \* ExecutionService.isInitializing (the flag-based service)
  boot,         \* per bootstrap: where the async body of init stands
  engine,       \* per engine: what outlives a call inside the interpreter
  mounted,      \* the mount effect of App has run
  pc,           \* per caller: where its runPython call stands
  awaiting,     \* per caller: the bootstrap whose promise its init() returned
  driverOn,     \* per caller: the engine its runPythonAsync was started on
  arrived,      \* per caller: bootstraps in flight when its call in flight began
  event,        \* what the last turn did and what it handed to its caller
  purgeNote,    \* what followed the last purge of the runtime
  appState,     \* App: the React state `state`
  appError,     \* App: the React state `error`
  implementation, \* App: the React state `implementation` (<< >>: null)
  run,          \* the closure of reader.onload: the orchestration run
  stale,        \* the closure of an upload that handleReset left running
  faults        \* faults the environment has injected into the orchestration

svcVars == << pyodide, initPromise, isExecuting, isInitializing, boot, engine >>
callVars == << pc, awaiting, driverOn, arrived >>
appVars == << appState, appError, implementation, run, stale, faults >>
vars == << pyodide, initPromise, isExecuting, isInitializing, boot, engine, mounted, pc, awaiting,
           driverOn, arrived, event, purgeNote, appState, appError,
           implementation, run, stale, faults >>

Stages == { "unborn", "loadPyodide", "loadPackage", "resolved",
            "failedSync", "failedEngine", "failedPackage" }
InFlightStages == { "loadPyodide", "loadPackage" }
FailedStages == { "failedSync", "failedEngine", "failedPackage" }

InFlight(bt) == { b \in BootIds : bt[b] \in InFlightStages }
Started(bt) == { b \in BootIds : bt[b] # "unborn" }

\* the message a failed bootstrap rejected with
BootMessage(stage) ==
  CASE stage = "failedSync" -> SyncThrowMessage
    [] stage = "failedEngine" -> EngineLoadMessage
    [] OTHER -> PackageLoadMessage

\* the service's fields as one value, to thread through a turn
Svc == [pyodide |-> pyodide, initPromise |-> initPromise,
        isExecuting |-> isExecuting, isInitializing |-> isInitializing,
        boot |-> boot, engine |-> engine]

SetSvc(s) ==
  /\ pyodide' = s.pyodide
  /\ initPromise' = s.initPromise
  /\ isExecuting' = s.isExecuting
  /\ isInitializing' = s.isInitializing
  /\ boot' = s.boot
  /\ engine' = s.engine

\* the interpreter of an engine no driver run has used: used, a driver run
\* has ended on it; marked, a guest has left its mark in it; pending, a task
\* a guest scheduled on its event loop has still to print its line;
\* captured, what the stdout and stderr handlers installed on it have
\* appended to the `logs` of the call that installed them and has not
\* returned; scopes, the number of global binding sets (pyGlobals) created
\* on it and not destroyed
NewInterpreter ==
  [used |-> FALSE, marked |-> FALSE, pending |-> FALSE, captured |-> << >>,
   scopes |-> 0]

\* The record of a turn.  op: the action; who: the caller or bootstrap it
\* concerns; outcome: what a runPython call settled with in this turn
\* (NoResult: none settled); held: the lock was held when the turn began;
\* contended: a runPython call was in flight when the turn began;
\* inited, fresh: the turn called init(), and init() started a bootstrap;
\* msg: the message of the host-level throw the turn handled;
\* guest, on: the program whose driver run ended in this turn and the engine
\* it ran on; first: that run was the first on an engine whose bootstrap
\* had completed; prev: the runPython call that returned last before this
\* turn, if it was such a first run; heard: the lines the handlers of the
\* call had appended to its `logs` when its driver run ended.
NoPrev == [program |-> "none", on |-> Null, passed |-> FALSE]

Event(op, who, outcome, inited, fresh, msg) ==
  [op |-> op, who |-> who, outcome |-> outcome, held |-> isExecuting,
   contended |-> \/ \E c \in Callers : pc[c] # "idle"
                 \/ run.pc \in { "awaitInit", "driver" }
                 \/ stale.pc \in { "awaitInit", "driver" },
   inited |-> inited, fresh |-> fresh, msg |-> msg,
   guest |-> NoGuest, on |-> Null, first |-> FALSE, heard |-> << >>,
   prev |-> IF event.outcome.kind # "value" THEN event.prev
            ELSE IF event.first
            THEN [program |-> event.guest.program, on |-> event.on,
                  passed |-> event.outcome.passed]
            ELSE NoPrev]

\* the record of a turn in which a driver run on engine b ended; ready: the
\* bootstrap of b had completed when the run began; lines: the `logs` of
\* the call at that moment
DriverEvent(e, g, b, ready, lines) ==
  [e EXCEPT !.guest = g, !.on = b, !.first = ~ engine[b].used /\ ready,
            !.heard = lines]

ServiceInit ==
  /\ pyodide = Null
  /\ initPromise = Null
  /\ isExecuting = FALSE
  /\ isInitializing = FALSE
  /\ boot = [b \in BootIds |-> "unborn"]
  /\ engine = [b \in BootIds |-> NewInterpreter]
  /\ purgeNote = "clean"

\* the run before any upload (generateInitialImplementation has not answered)
NoRun ==
  [pc |-> "idle", isPro |-> FALSE, iteration |-> 0, passed |-> FALSE,
   history |-> << >>,
   result |-> [code |-> 0, explanation |-> 0, tests |-> 0,
               testResults |-> [passed |-> FALSE, logs |-> << >>],
               iterationCount |-> 0, history |-> << >>,
               architectureImage |-> FALSE, audioData |-> FALSE],
   awaiting |-> Null, driverOn |-> Null, calls |-> 0, repairs |-> 0,
   request |-> [code |-> 0, logs |-> << >>],
   trail |-> << >>]

AppInit ==
  /\ appState = "IDLE"
  /\ appError = << >>
  /\ implementation = << >>
  /\ run = NoRun
  /\ stale = NoRun
  /\ faults = 0

Init ==
  /\ ServiceInit
  /\ AppInit
  /\ mounted = FALSE
  /\ pc = [c \in Callers |-> "idle"]
  /\ awaiting = [c \in Callers |-> Null]
  /\ driverOn = [c \in Callers |-> Null]
  /\ arrived = [c \in Callers |-> {}]
  /\ event = [op |-> "start", who |-> Null, outcome |-> NoResult, held |-> FALSE,
              contended |-> FALSE, inited |-> FALSE, fresh |-> FALSE, msg |-> NoMessage,
              guest |-> NoGuest, on |-> Null, first |-> FALSE, heard |-> << >>,
              prev |-> NoPrev]

(* ------------------------ ExecutionService.init ------------------------ *)
\* the bootstrap a fresh initialization gets (bootstraps are numbered as started)
FreshBoot(bt) == CHOOSE b \in BootIds : bt[b] = "unborn" /\ \A a \in BootIds : a < b => bt[a] # "unborn"

\* the model can serve this call to init(): a new bootstrap is left if one is needed
CanInit(s) ==
  s.pyodide # Null \/ s.initPromise # Null \/ \E b \in BootIds : s.boot[b] = "unborn"

\* the first statement of init()
AlreadyLoaded(s) == s.pyodide # Null

\* One call of init(), up to its first suspension.  sync: window.loadPyodide
\* throws synchronously (it is not defined); the catch clears initPromise and
\* the assignment that follows stores the rejected promise.
\* settle: whether the returned promise is already settled; on: the bootstrap
\* whose promise was returned; fresh: a new bootstrap was started.
InitCall(s, sync) ==
  IF AlreadyLoaded(s)
  THEN [svc |-> s, settle |-> "resolved", on |-> Null, fresh |-> FALSE]
  ELSE IF s.initPromise # Null
  THEN [svc |-> s,
        settle |-> IF s.boot[s.initPromise] = "resolved" THEN "resolved"
                   ELSE IF s.boot[s.initPromise] \in FailedStages THEN "rejected"
                   ELSE "pending",
        on |-> s.initPromise, fresh |-> FALSE]
  ELSE LET b == FreshBoot(s.boot)
       IN  IF sync
           THEN [svc |-> [s EXCEPT !.boot[b] = "failedSync", !.initPromise = b],
                 settle |-> "rejected", on |-> b, fresh |-> TRUE]
           ELSE [svc |-> [s EXCEPT !.boot[b] = "loadPyodide", !.initPromise = b],
                 settle |-> "pending", on |-> b, fresh |-> TRUE]

\* a purge that forgets the cached promise
PurgeKeepsPromise(s) == [s EXCEPT !.pyodide = Null]

\* the body of handleFatalError for a message classified as fatal; the
\* engine no reference is left to is garbage, and so is its interpreter
Purge(s) ==
  [s EXCEPT !.pyodide = Null, !.initPromise = Null,
            !.engine = [b \in BootIds |-> IF b = s.pyodide THEN NewInterpreter ELSE @[b]]]

\* handleFatalError without its test of the message
HandleFatalErrorAlways(s, msg) == Purge(s)

\* handleFatalError(err)
HandleFatalError(s, msg) == IF IsFatal(msg) THEN Purge(s) ELSE s

\* the finally block of runPython
Release(s) == [s EXCEPT !.isExecuting = FALSE]

\* runPython without its guard
LockNeverHeld(s) == FALSE

\* the guard before the try block of runPython
LockHeld(s) == s.isExecuting

(* ---------------------- ExecutionService.runPython --------------------- *)
\* `let logs = ""` and setStdout, setStderr: the handlers of the interpreter
\* are replaced by two that append to the fresh `logs` of this call
Intercept(s) == [s EXCEPT !.engine[s.pyodide].captured = << >>]

\* const pyGlobals = this.pyodide.globals.get("dict")()
CreateScope(s) == [s EXCEPT !.engine[s.pyodide].scopes = @ + 1]

\* runPython after `await this.init()` resolved: install the interceptors on
\* this.pyodide, create the scope, start runPythonAsync.  With no engine the
\* property access throws and the outer catch returns.
AfterInit(s) ==
  IF s.pyodide = Null
  THEN [svc |-> Release(s), pos |-> "idle", engine |-> Null,
        outcome |-> FailureResult(NullDerefMessage)]
  ELSE [svc |-> CreateScope(Intercept(s)), pos |-> "driver", engine |-> s.pyodide,
        outcome |-> NoResult]

\* runPython without its outer catch: the bootstrap error escapes
AfterInitFailedRethrows(s, msg) ==
  [svc |-> Release(s), pos |-> "idle", engine |-> Null,
   outcome |-> [kind |-> "rejected", passed |-> FALSE, logs |-> msg,
                variables |-> "undefined"]]

\* runPython after `await this.init()` rejected with msg
AfterInitFailed(s, msg) ==
  [svc |-> Release(s), pos |-> "idle", engine |-> Null, outcome |-> FailureResult(msg)]

\* the lock test inside the try block: its throw passes through finally
RunPythonCallBusyInTry(s, sync) ==
  IF LockHeld(s)
  THEN [svc |-> Release(s), pos |-> "idle", engine |-> Null, outcome |-> BusyRejection,
        on |-> Null, fresh |-> FALSE, inited |-> FALSE]
  ELSE LET i == InitCall([s EXCEPT !.isExecuting = TRUE], sync)
           k == IF i.settle = "resolved" THEN AfterInit(i.svc)
                ELSE IF i.settle = "rejected"
                THEN AfterInitFailed(i.svc, BootMessage(i.svc.boot[i.on]))
                ELSE [svc |-> i.svc, pos |-> "awaitInit", engine |-> Null,
                      outcome |-> NoResult]
       IN  [svc |-> k.svc, pos |-> k.pos, engine |-> k.engine, outcome |-> k.outcome,
            on |-> IF k.pos = "awaitInit" THEN i.on ELSE Null,
            fresh |-> i.fresh, inited |-> TRUE]

\* One call of runPython, up to its first suspension.
RunPythonCall(s, sync) ==
  IF LockHeld(s)
  THEN [svc |-> s, pos |-> "idle", engine |-> Null, outcome |-> BusyRejection,
        on |-> Null, fresh |-> FALSE, inited |-> FALSE]
  ELSE LET i == InitCall([s EXCEPT !.isExecuting = TRUE], sync)
           k == IF i.settle = "resolved" THEN AfterInit(i.svc)
                ELSE IF i.settle = "rejected"
                THEN AfterInitFailed(i.svc, BootMessage(i.svc.boot[i.on]))
                ELSE [svc |-> i.svc, pos |-> "awaitInit", engine |-> Null,
                      outcome |-> NoResult]
       IN  [svc |-> k.svc, pos |-> k.pos, engine |-> k.engine, outcome |-> k.outcome,
            on |-> IF k.pos = "awaitInit" THEN i.on ELSE Null,
            fresh |-> i.fresh, inited |-> TRUE]

\* the interpreter of engine b after a driver run that left a mark or not;
\* the finally block of the inner try has destroyed pyGlobals
EngineRan(s, b, marks) ==
  [s EXCEPT !.engine[b].used = TRUE, !.engine[b].marked = @ \/ marks,
            !.engine[b].captured = << >>, !.engine[b].scopes = @ - 1]

\* the interpreter of engine b after the run of guest g: a task g scheduled
\* stays on the event loop of the interpreter
TaskLeft(s, b, g) == [s EXCEPT !.engine[b].pending = @ \/ g.lingers]

\* `logs` when runPythonAsync resolved: what the handlers appended before the
\* driver script ran, then the output of the script
Captured(s, b, output) == s.engine[b].captured \o output

\* the program of a run, with what it did
GuestOf(p, g) == [program |-> p, cand |-> g.cand, tests |-> g.tests]

\* runPython when runPythonAsync resolved with the captured lines
DriverResolved(s, lines) ==
  [svc |-> Release(s), outcome |-> ParseResult(lines)]

\* the lock released at the end of the try block instead of in finally
DriverThrewKeepsLock(s, msg) ==
  [svc |-> HandleFatalError(s, msg), outcome |-> FailureResult(msg)]

\* runPython when runPythonAsync rejected with msg: inner catch, outer catch
DriverThrew(s, msg) ==
  [svc |-> Release(HandleFatalError(s, msg)), outcome |-> FailureResult(msg)]

\* what the last purge was followed by: the first init() call after a purge
\* either starts a bootstrap ("fresh") or does not ("reused")
NoteInit(note, inited, fresh) ==
  IF inited /\ note = "purged" THEN (IF fresh THEN "fresh" ELSE "reused") ELSE note

NotePurge(note, msg) == IF IsFatal(msg) THEN "purged" ELSE note

(* ------------------- the bootstrap (async body of init) ---------------- *)
\* `this.pyodide = await window.loadPyodide(...)` resolved; loadPackage is called
LoadPyodideDone(s, b) == [s EXCEPT !.pyodide = b, !.boot[b] = "loadPackage"]

\* `await this.pyodide.loadPackage(...)` resolved: the promise resolves
LoadPackageDone(s, b) == [s EXCEPT !.boot[b] = "resolved"]

\* the catch block of the bootstrap, at either await
BootFailed(s, b) ==
  [s EXCEPT !.initPromise = Null,
            !.boot[b] = IF s.boot[b] = "loadPyodide" THEN "failedEngine" ELSE "failedPackage"]

(* ------------------------------ actions -------------------------------- *)
\* the mount effect of App: executionService.init().catch(console.error)
Mount ==
  /\ ~mounted
  /\ CanInit(Svc)
  /\ \E sync \in BOOLEAN :
       LET i == InitCall(Svc, sync)
       IN  /\ SetSvc(i.svc)
           /\ purgeNote' = NoteInit(purgeNote, TRUE, i.fresh)
           /\ event' = Event("mount", Null, NoResult, TRUE, i.fresh, NoMessage)
  /\ mounted' = TRUE
  /\ UNCHANGED << callVars, appVars >>

\* a client calls executionService.runPython(code, tests)
Call(c) ==
  /\ pc[c] = "idle"
  /\ LockHeld(Svc) \/ CanInit(Svc)
  /\ \E sync \in BOOLEAN :
       LET r == RunPythonCall(Svc, sync)
       IN  /\ SetSvc(r.svc)
           /\ pc' = [pc EXCEPT ![c] = r.pos]
           /\ awaiting' = [awaiting EXCEPT ![c] = r.on]
           /\ driverOn' = [driverOn EXCEPT ![c] = r.engine]
           /\ arrived' = [arrived EXCEPT ![c] = IF r.pos = "idle" THEN {} ELSE InFlight(boot)]
           /\ purgeNote' = NoteInit(purgeNote, r.inited, r.fresh)
           /\ event' = Event("call", c, r.outcome, r.inited, r.fresh, NoMessage)
  /\ UNCHANGED << mounted, appVars >>

\* window.loadPyodide resolves for bootstrap b
EngineLoaded(b) ==
  /\ boot[b] = "loadPyodide"
  /\ SetSvc(LoadPyodideDone(Svc, b))
  /\ event' = Event("engineLoaded", b, NoResult, FALSE, FALSE, NoMessage)
  /\ UNCHANGED << mounted, callVars, purgeNote, appVars >>

\* pyodide.loadPackage resolves for bootstrap b
PackagesLoaded(b) ==
  /\ boot[b] = "loadPackage"
  /\ SetSvc(LoadPackageDone(Svc, b))
  /\ event' = Event("packagesLoaded", b, NoResult, FALSE, FALSE, NoMessage)
  /\ UNCHANGED << mounted, callVars, purgeNote, appVars >>

\* window.loadPyodide or pyodide.loadPackage rejects for bootstrap b
BootstrapFails(b) ==
  /\ boot[b] \in InFlightStages
  /\ SetSvc(BootFailed(Svc, b))
  /\ event' = Event("bootstrapFails", b, NoResult, FALSE, FALSE, NoMessage)
  /\ UNCHANGED << mounted, callVars, purgeNote, appVars >>

\* the promise init() returned to caller c has settled: runPython goes on
Resume(c) ==
  /\ pc[c] = "awaitInit"
  /\ boot[awaiting[c]] \notin InFlightStages
  /\ LET k == IF boot[awaiting[c]] = "resolved" THEN AfterInit(Svc)
              ELSE AfterInitFailed(Svc, BootMessage(boot[awaiting[c]]))
     IN  /\ SetSvc(k.svc)
         /\ pc' = [pc EXCEPT ![c] = k.pos]
         /\ driverOn' = [driverOn EXCEPT ![c] = k.engine]
         /\ arrived' = [arrived EXCEPT ![c] = IF k.pos = "idle" THEN {} ELSE @]
         /\ event' = Event("resume", c, k.outcome, FALSE, FALSE, NoMessage)
  /\ awaiting' = [awaiting EXCEPT ![c] = Null]
  /\ UNCHANGED << mounted, purgeNote, appVars >>

\* The engine of caller c's driver run was ready when the run began: no
\* bootstrap was in flight when c called (its engine was loaded before, or
\* c's own init() started its bootstrap and awaited it) and it has completed.
DriverBeganReady(c) == arrived[c] = {} /\ boot[driverOn[c]] = "resolved"

\* runPythonAsync resolves for caller c: the driver script ran to its end
\* with a guest among progs
DriverRuns(c, progs) ==
  /\ pc[c] = "driver"
  /\ \E p \in progs :
       LET b == driverOn[c]
           g == Guest(p, engine[b].marked)
           d == DriverResolved(TaskLeft(EngineRan(Svc, b, g.marks), b, g),
                               Captured(Svc, b, DriverOutput(g.cand, g.tests, g.printed)))
       IN  /\ SetSvc(d.svc)
           /\ event' = DriverEvent(Event("driverReturns", c, d.outcome, FALSE, FALSE, NoMessage),
                                   GuestOf(p, g), b, DriverBeganReady(c),
                                   Captured(Svc, b, DriverOutput(g.cand, g.tests, g.printed)))
  /\ pc' = [pc EXCEPT ![c] = "idle"]
  /\ driverOn' = [driverOn EXCEPT ![c] = Null]
  /\ arrived' = [arrived EXCEPT ![c] = {}]
  /\ UNCHANGED << mounted, awaiting, purgeNote, appVars >>

DriverReturns(c) == DriverRuns(c, Programs)

\* runPythonAsync rejects for caller c with a throw at host level, after the
\* script has written one of saids to stdout
DriverAborts(c, saids) ==
  /\ pc[c] = "driver"
  /\ \E msg \in HostMessages, said \in saids :
       LET b == driverOn[c]
           d == DriverThrew(EngineRan(Svc, b, FALSE), msg)
       IN  /\ SetSvc(d.svc)
           /\ event' = DriverEvent(Event("driverThrows", c, d.outcome, FALSE, FALSE, msg),
                                   NoGuest, b, DriverBeganReady(c), Captured(Svc, b, said))
           /\ purgeNote' = NotePurge(purgeNote, msg)
  /\ pc' = [pc EXCEPT ![c] = "idle"]
  /\ driverOn' = [driverOn EXCEPT ![c] = Null]
  /\ arrived' = [arrived EXCEPT ![c] = {}]
  /\ UNCHANGED << mounted, awaiting, appVars >>

\* the throw comes before the script has written anything
DriverThrows(c) == DriverAborts(c, { << >> })

Next ==
  \/ Mount
  \/ \E c \in Callers : Call(c)
  \/ \E b \in BootIds : EngineLoaded(b)
  \/ \E b \in BootIds : PackagesLoaded(b)
  \/ \E b \in BootIds : BootstrapFails(b)
  \/ \E c \in Callers : Resume(c)
  \/ \E c \in Callers : DriverReturns(c)
  \/ \E c \in Callers : DriverThrows(c)

Spec == Init /\ [][Next]_vars

(* ------------------- output outside the driver script ------------------ *)
\* guests of the runs that may leave a task behind
CapturePrograms == { "clean", "raises", "lingers" }

\* what a script that ends in a host-level throw wrote before it: nothing
\* (the script does not compile), or the first stage line of the driver and
\* a line of the candidate (the candidate printed, then called sys.exit)
Saids ==
  { << >>, << Line("RL_STAGELOG", "INITIALIZING_CORE"), Line("", "step 1") >> }

\* a call has installed its handlers on engine b and its runPythonAsync has
\* not settled
Intercepting(b) ==
  \/ \E c \in Callers : pc[c] = "driver" /\ driverOn[c] = b
  \/ run.pc = "driver" /\ run.driverOn = b
  \/ stale.pc = "driver" /\ stale.driverOn = b

\* scopes the model lets leak on one interpreter
MaxLeaks == 2

\* A client calls runPython with no code (the `code` of a synthesis answer
\* whose text was empty is undefined) on a loaded runtime: init() returns
\* at its first statement, the handlers are installed, pyGlobals is created,
\* and `code.split` throws while fullCode is built, before the inner try:
\* the outer catch returns, the inner finally never runs.
CallNoCode(c) ==
  /\ pc[c] = "idle"
  /\ ~ LockHeld(Svc)
  /\ AlreadyLoaded(Svc)
  /\ engine[pyodide].scopes < MaxLeaks
  /\ SetSvc(Release(CreateScope(Intercept([Svc EXCEPT !.isExecuting = TRUE]))))
  /\ purgeNote' = NoteInit(purgeNote, TRUE, FALSE)
  /\ event' = Event("callNoCode", c, FailureResult(UndefinedCodeMessage), TRUE, FALSE,
                    NoMessage)
  /\ UNCHANGED << mounted, callVars, appVars >>

\* The event loop runs the task a guest left on engine b and the task
\* prints a line.  The line goes to the handlers installed on the
\* interpreter: those of the call that is awaiting runPythonAsync, whose
\* driver script has not begun, or else those of a call that has returned,
\* whose `logs` nothing reads any more.
LateOutput(b) ==
  /\ engine[b].pending
  /\ engine' = [engine EXCEPT
                  ![b].pending = FALSE,
                  ![b].captured = IF Intercepting(b)
                                  THEN Append(@, Line("", "late output"))
                                  ELSE @]
  /\ event' = [Event("lateOutput", b, NoResult, FALSE, FALSE, NoMessage)
                 EXCEPT !.on = IF Intercepting(b) THEN b ELSE Null]
  /\ UNCHANGED << pyodide, initPromise, isExecuting, isInitializing, boot, mounted, callVars,
                  purgeNote, appVars >>

NextCapture ==
  \/ Mount
  \/ \E c \in Callers : Call(c)
  \/ \E b \in BootIds : EngineLoaded(b)
  \/ \E b \in BootIds : PackagesLoaded(b)
  \/ \E b \in BootIds : BootstrapFails(b)
  \/ \E c \in Callers : Resume(c)
  \/ \E c \in Callers : DriverRuns(c, CapturePrograms)
  \/ \E c \in Callers : DriverAborts(c, Saids)
  \/ \E c \in Callers : CallNoCode(c)
  \/ \E b \in BootIds : LateOutput(b)

SpecCapture == Init /\ [][NextCapture]_vars

(* ----------------- App.handleFileUpload: the loop ---------------------- *)
\* faults (host-level throws, failed bootstraps) the environment may inject
\* into one orchestration
MaxFaults == 2

\* a ceiling one too high
CeilingRaised == 8 + 1

\* the iteration ceiling of the loop (the 8 of the while test and of the break)
Ceiling == 8

\* what runPythonAsync can reject with during an orchestration: a message
\* handleFatalError classifies as fatal, and one it does not
OrchHostMessages ==
  { << "RuntimeError", ":", "table", "index", "out", "of", "bounds" >>,
    << "SyntaxError", ":", "invalid", "syntax" >> }

\* what the guest code does during an orchestration: the candidate runs and
\* its tests hold or fail; or the candidate itself raises, in the first
\* iteration
OrchGuests(iteration) ==
  { "clean", "failsTests" }
    \cup (IF iteration = 1 THEN { "raises", "forges" } ELSE {})

\* what the guest code of closure k does: the paper a reset left behind is
\* one whose candidates pass their tests
SlotGuests(k, iteration) ==
  IF k = "stale" THEN { "clean" } ELSE OrchGuests(iteration)

\* the while test
LoopGuard(passed, iteration) == ~passed /\ iteration <= Ceiling

\* the loop without its break
BreaksNever(iteration) == FALSE

\* `if (iteration === 8) break`
BreaksAt(iteration) == iteration = Ceiling

Min(a, b) == IF a <= b THEN a ELSE b

\* a score that falls with the iteration
StabilityScoreFalling(passed, iteration) ==
  IF passed THEN 100 ELSE Min(95, 100 - (iteration * 10))

\* stabilityScore of a history record
StabilityScore(passed, iteration) ==
  IF passed THEN 100 ELSE Min(95, 20 + (iteration * 10))

\* The answer of generateInitialImplementation.  Candidates are numbered in
\* the order the collaborator produced them: code, tests and explanation v.
InitialImplementation ==
  [code |-> 1, explanation |-> 1, tests |-> 1,
   testResults |-> [passed |-> FALSE, logs |-> << >>],
   iterationCount |-> 1, history |-> << >>,
   architectureImage |-> FALSE, audioData |-> FALSE]

\* { ...result, ...refined }: the fields of the answer replace those of result
Spread(result, refined) ==
  [result EXCEPT !.code = refined.code, !.explanation = refined.explanation,
                 !.tests = refined.tests,
                 !.iterationCount = IF refined.hasCount THEN 99 ELSE @]

\* the new result with the count written before the answer is spread
RefineCountFirst(result, refined, iteration) ==
  Spread([result EXCEPT !.iterationCount = iteration + 1], refined)

\* { ...result, ...refined, iterationCount: iteration + 1 } for the answer
\* refined of refineImplementation
Refine(result, refined, iteration) ==
  [Spread(result, refined) EXCEPT !.iterationCount = iteration + 1]

\* the record with a 0-based iteration field
CodeVersionZeroBased(r, res) ==
  [iteration |-> r.iteration - 1, code |-> r.result.code,
   explanation |-> r.result.explanation,
   error |-> IF res.passed THEN [present |-> FALSE, logs |-> << >>]
             ELSE [present |-> TRUE, logs |-> res.logs],
   stabilityScore |-> StabilityScore(res.passed, r.iteration)]

\* the record with the logs as its error whatever the verdict
CodeVersionAlwaysError(r, res) ==
  [iteration |-> r.iteration, code |-> r.result.code,
   explanation |-> r.result.explanation,
   error |-> [present |-> TRUE, logs |-> res.logs],
   stabilityScore |-> StabilityScore(res.passed, r.iteration)]

\* the record history.push appends for the result res of this iteration
CodeVersion(r, res) ==
  [iteration |-> r.iteration, code |-> r.result.code,
   explanation |-> r.result.explanation,
   error |-> IF res.passed THEN [present |-> FALSE, logs |-> << >>]
             ELSE [present |-> TRUE, logs |-> res.logs],
   stabilityScore |-> StabilityScore(res.passed, r.iteration)]

\* the repair request as it would be with the logs of the result before
RepairRequestStale(r, res) ==
  [code |-> r.result.code, logs |-> r.result.testResults.logs]

\* the arguments of refineImplementation(paperData, result, runResults.logs):
\* the candidate in result and the logs of the result res of this iteration
RepairRequest(r, res) == [code |-> r.result.code, logs |-> res.logs]

\* the candidate the collaborator answers a repair request with: the
\* successor of the candidate it was given
Repaired(request) == request.code + 1

\* JSON.parse(response.text) of refineImplementation: code, explanation and
\* tests of the new candidate; hasCount, the answer carries an iterationCount
\* of its own as well
RepairResponse(request, hasCount) ==
  [code |-> Repaired(request), explanation |-> Repaired(request),
   tests |-> Repaired(request), hasCount |-> hasCount]

\* the App and the service as one value, to thread through a turn
App == [svc |-> Svc, run |-> run, appState |-> appState,
        implementation |-> implementation]

\* an enrichment that rebuilds the result around the image
WithDiagramOnly(result, img) ==
  [result EXCEPT !.architectureImage = img,
                 !.testResults = [passed |-> FALSE, logs |-> << >>]]

\* `if (img) result.architectureImage = img`: img is FALSE when the
\* generation failed (the catch only warns) or returned nothing
WithDiagram(result, img) == [result EXCEPT !.architectureImage = img]

\* `result.audioData = await generateVocalExplanation(result)`: audio is FALSE
\* when the generation failed (the catch only warns) or returned nothing
WithAudio(result, audio) == [result EXCEPT !.audioData = audio]

\* setState(st) called by the run: the state shown, and the trail of the
\* states this run has set
SetState(a, st) == [a EXCEPT !.appState = st, !.run.trail = Append(@, st)]

\* setState(COMPLETED) ... setImplementation(result)
Complete(a) ==
  [SetState(a, "COMPLETED") EXCEPT !.implementation = << a.run.result >>,
                                   !.run.pc = "done"]

\* the loop left without `result.history = history`
LeaveLoopNoHistory(a) ==
  IF a.run.isPro
  THEN [SetState(a, "VISUALIZING") EXCEPT !.run.pc = "visualizing"]
  ELSE Complete(a)

\* after the loop: result.history = history, then the Pro enrichment
LeaveLoop(a) ==
  LET b == [a EXCEPT !.run.result.history = a.run.history]
  IN  IF b.run.isPro
      THEN [SetState(b, "VISUALIZING") EXCEPT !.run.pc = "visualizing"]
      ELSE Complete(b)

\* the loop body with a repair that is not awaited: the next runPython call
\* is made while the repair request is still out
AfterRunEager(a, res) ==
  LET b == [a EXCEPT !.run.result.testResults = [passed |-> res.passed, logs |-> res.logs],
                     !.run.passed = res.passed,
                     !.run.history = Append(@, CodeVersion(a.run, res)),
                     !.run.awaiting = Null,
                     !.run.driverOn = Null]
  IN  IF ~res.passed /\ ~BreaksAt(a.run.iteration)
      THEN LET k == RunPythonCall(b.svc, FALSE)
           IN  [SetState(b, "TESTING") EXCEPT
                         !.svc = k.svc,
                         !.run.repairs = @ + 1,
                         !.run.request = RepairRequest(a.run, res),
                         !.run.iteration = @ + 1,
                         !.run.calls = @ + 1,
                         !.run.awaiting = k.on, !.run.driverOn = k.engine,
                         !.run.pc = IF k.pos = "idle" THEN "refining" ELSE k.pos]
      ELSE LeaveLoop(b)

\* the loop body without the test of passed before the repair
AfterRunAlwaysRepairs(a, res) ==
  LET b == [a EXCEPT !.run.result.testResults = [passed |-> res.passed, logs |-> res.logs],
                     !.run.passed = res.passed,
                     !.run.history = Append(@, CodeVersion(a.run, res)),
                     !.run.awaiting = Null,
                     !.run.driverOn = Null]
  IN  IF ~BreaksAt(a.run.iteration)
      THEN [SetState(b, "DEBUGGING") EXCEPT
                     !.run.pc = "refining",
                     !.run.repairs = @ + 1,
                     !.run.request = RepairRequest(a.run, res)]
      ELSE LeaveLoop(b)

\* the loop body with setState(DEBUGGING) before the break at the ceiling
AfterRunDebugsFirst(a, res) ==
  LET b == [a EXCEPT !.run.result.testResults = [passed |-> res.passed, logs |-> res.logs],
                     !.run.passed = res.passed,
                     !.run.history = Append(@, CodeVersion(a.run, res)),
                     !.run.awaiting = Null,
                     !.run.driverOn = Null]
  IN  IF res.passed THEN LeaveLoop(b)
      ELSE IF BreaksAt(a.run.iteration) THEN LeaveLoop(SetState(b, "DEBUGGING"))
      ELSE [SetState(b, "DEBUGGING") EXCEPT
                     !.run.pc = "refining",
                     !.run.repairs = @ + 1,
                     !.run.request = RepairRequest(a.run, res)]

\* the loop body after runPython returned res: record, then repair or leave
AfterRun(a, res) ==
  LET b == [a EXCEPT !.run.result.testResults = [passed |-> res.passed, logs |-> res.logs],
                     !.run.passed = res.passed,
                     !.run.history = Append(@, CodeVersion(a.run, res)),
                     !.run.awaiting = Null,
                     !.run.driverOn = Null]
  IN  IF ~res.passed /\ ~BreaksAt(a.run.iteration)
      THEN [SetState(b, "DEBUGGING") EXCEPT
                     !.run.pc = "refining",
                     !.run.repairs = @ + 1,
                     !.run.request = RepairRequest(a.run, res)]
      ELSE LeaveLoop(b)

\* the loop test, setState(TESTING) and the call of runPython, up to the next
\* suspension.  A rejection of runPython is thrown inside reader.onload, an
\* async callback nothing awaits: the run ends there.
EnterLoop(a, sync) ==
  IF ~LoopGuard(a.run.passed, a.run.iteration)
  THEN [app |-> LeaveLoop(a), outcome |-> NoResult, inited |-> FALSE, fresh |-> FALSE]
  ELSE LET k == RunPythonCall(a.svc, sync)
           b == [SetState(a, "TESTING") EXCEPT
                          !.svc = k.svc,
                          !.run.calls = @ + 1,
                          !.run.awaiting = k.on, !.run.driverOn = k.engine]
       IN  [app |-> IF k.outcome.kind = "rejected" THEN [b EXCEPT !.run.pc = "crashed"]
                    ELSE IF k.pos = "idle" THEN AfterRun(b, k.outcome)
                    ELSE [b EXCEPT !.run.pc = k.pos],
            outcome |-> k.outcome, inited |-> k.inited, fresh |-> k.fresh]

\* the environment may still inject a fault
MayFault == faults < MaxFaults
SyncChoices == IF MayFault THEN BOOLEAN ELSE { FALSE }

\* the loop can go on in the model: its call of init() can be served
CanEnter(a) ==
  ~LoopGuard(a.run.passed, a.run.iteration) \/ LockHeld(a.svc) \/ CanInit(a.svc)

(* ------------------------ orchestration actions ------------------------- *)
\* The closures of reader.onload that can be alive: that of the last upload
\* ("run"), and that of an upload handleReset has left behind ("stale").
Slots == { "run", "stale" }

RunOf(k) == IF k = "run" THEN run ELSE stale

SetRunOf(k, r) ==
  IF k = "run" THEN run' = r /\ stale' = stale ELSE stale' = r /\ run' = run

\* the App as closure k sees it, and the App as a turn of closure k leaves it
AppOf(k) == [App EXCEPT !.run = RunOf(k)]

SetAppOf(k, a) ==
  /\ SetSvc(a.svc)
  /\ SetRunOf(k, a.run)
  /\ appState' = a.appState
  /\ implementation' = a.implementation

\* handleFileUpload, up to reader.readAsDataURL (the input shows when IDLE)
Upload ==
  /\ appState = "IDLE"
  /\ run.pc = "idle"
  /\ \E pro \in BOOLEAN :
       run' = [NoRun EXCEPT !.pc = "reading", !.isPro = pro,
                            !.trail = << "ANALYZING" >>]
  /\ appState' = "ANALYZING"
  /\ appError' = << >>
  /\ implementation' = << >>
  /\ event' = Event("upload", Null, NoResult, FALSE, FALSE, NoMessage)
  /\ UNCHANGED << svcVars, mounted, callVars, purgeNote, faults, stale >>

\* reader.onload: the call of analyzePaper
ReaderLoaded(k) ==
  /\ RunOf(k).pc = "reading"
  /\ SetRunOf(k, [RunOf(k) EXCEPT !.pc = "analyzing"])
  /\ event' = Event("readerLoaded", Null, NoResult, FALSE, FALSE, NoMessage)
  /\ UNCHANGED << svcVars, mounted, callVars, purgeNote, appState, appError,
                  implementation, faults >>

\* analyzePaper answers: setState(IMPLEMENTING), generateInitialImplementation
AnalysisReturns(k) ==
  /\ RunOf(k).pc = "analyzing"
  /\ SetRunOf(k, [RunOf(k) EXCEPT !.pc = "implementing",
                                  !.trail = Append(@, "IMPLEMENTING")])
  /\ appState' = "IMPLEMENTING"
  /\ event' = Event("analysisReturns", Null, NoResult, FALSE, FALSE, NoMessage)
  /\ UNCHANGED << svcVars, mounted, callVars, purgeNote, appError, implementation, faults >>

\* analyzePaper, generateInitialImplementation or refineImplementation
\* rejects: the error is thrown inside reader.onload and nothing catches it
CollaboratorFails(k) ==
  /\ RunOf(k).pc \in { "analyzing", "implementing", "refining" }
  /\ SetRunOf(k, [RunOf(k) EXCEPT !.pc = "crashed"])
  /\ event' = Event("collaboratorFails", Null, NoResult, FALSE, FALSE, NoMessage)
  /\ UNCHANGED << svcVars, mounted, callVars, purgeNote, appState, appError,
                  implementation, faults >>

\* generateInitialImplementation answers: the loop starts
SynthesisReturns(k) ==
  /\ RunOf(k).pc = "implementing"
  /\ LET a == [AppOf(k) EXCEPT !.run.result = InitialImplementation,
                               !.run.passed = FALSE, !.run.iteration = 1,
                               !.run.history = << >>]
     IN  /\ CanEnter(a)
         /\ \E sync \in SyncChoices :
              LET t == EnterLoop(a, sync)
              IN  /\ SetAppOf(k, t.app)
                  /\ event' = Event("synthesisReturns", Null, t.outcome, t.inited, t.fresh, NoMessage)
                  /\ purgeNote' = NoteInit(purgeNote, t.inited, t.fresh)
                  /\ faults' = IF t.fresh /\ sync THEN faults + 1 ELSE faults
  /\ UNCHANGED << mounted, callVars, appError >>

\* refineImplementation answers: the next iteration starts
RepairReturns(k) ==
  /\ RunOf(k).pc = "refining"
  /\ \E hasCount \in BOOLEAN :
     LET a == [AppOf(k) EXCEPT
                 !.run.result = Refine(@, RepairResponse(RunOf(k).request, hasCount),
                                       RunOf(k).iteration),
                 !.run.iteration = @ + 1]
     IN  /\ CanEnter(a)
         /\ \E sync \in SyncChoices :
              LET t == EnterLoop(a, sync)
              IN  /\ SetAppOf(k, t.app)
                  /\ event' = Event("repairReturns", Null, t.outcome, t.inited, t.fresh, NoMessage)
                  /\ purgeNote' = NoteInit(purgeNote, t.inited, t.fresh)
                  /\ faults' = IF t.fresh /\ sync THEN faults + 1 ELSE faults
  /\ UNCHANGED << mounted, callVars, appError >>

\* a bootstrap fails during an orchestration
OrchBootstrapFails(b) ==
  /\ MayFault
  /\ boot[b] \in InFlightStages
  /\ SetSvc(BootFailed(Svc, b))
  /\ faults' = faults + 1
  /\ event' = Event("bootstrapFails", b, NoResult, FALSE, FALSE, NoMessage)
  /\ UNCHANGED << mounted, callVars, purgeNote, appState, appError, implementation,
                  run, stale >>

\* the promise init() returned to the runPython call of closure k has settled
RunResumes(k) ==
  /\ RunOf(k).pc = "awaitInit"
  /\ boot[RunOf(k).awaiting] \notin InFlightStages
  /\ LET k2 == IF boot[RunOf(k).awaiting] = "resolved" THEN AfterInit(Svc)
               ELSE AfterInitFailed(Svc, BootMessage(boot[RunOf(k).awaiting]))
         a == [AppOf(k) EXCEPT !.svc = k2.svc, !.run.awaiting = Null,
                               !.run.driverOn = k2.engine]
     IN  /\ SetAppOf(k, IF k2.pos = "idle" THEN AfterRun(a, k2.outcome)
                        ELSE [a EXCEPT !.run.pc = k2.pos])
         /\ event' = Event("resume", Null, k2.outcome, FALSE, FALSE, NoMessage)
  /\ UNCHANGED << mounted, callVars, purgeNote, appError, faults >>

\* runPythonAsync resolves for the call of closure k
RunDriverReturns(k) ==
  /\ RunOf(k).pc = "driver"
  /\ \E p \in SlotGuests(k, RunOf(k).iteration) :
       LET b == RunOf(k).driverOn
           g == Guest(p, engine[b].marked)
           d == DriverResolved(TaskLeft(EngineRan(Svc, b, g.marks), b, g),
                               Captured(Svc, b, DriverOutput(g.cand, g.tests, g.printed)))
       IN  /\ SetAppOf(k, AfterRun([AppOf(k) EXCEPT !.svc = d.svc], d.outcome))
           /\ event' = DriverEvent(Event("driverReturns", Null, d.outcome, FALSE, FALSE, NoMessage),
                                   GuestOf(p, g), b, boot[b] = "resolved",
                                   Captured(Svc, b, DriverOutput(g.cand, g.tests, g.printed)))
  /\ UNCHANGED << mounted, callVars, purgeNote, appError, faults >>

\* runPythonAsync rejects for the call of closure k
RunDriverThrows(k) ==
  /\ RunOf(k).pc = "driver"
  /\ MayFault
  /\ \E msg \in OrchHostMessages :
       LET b == RunOf(k).driverOn
           d == DriverThrew(EngineRan(Svc, b, FALSE), msg)
       IN  /\ SetAppOf(k, AfterRun([AppOf(k) EXCEPT !.svc = d.svc], d.outcome))
           /\ event' = DriverEvent(Event("driverThrows", Null, d.outcome, FALSE, FALSE, msg),
                                   NoGuest, b, boot[b] = "resolved", Captured(Svc, b, << >>))
           /\ purgeNote' = NotePurge(purgeNote, msg)
  /\ faults' = faults + 1
  /\ UNCHANGED << mounted, callVars, appError >>

\* generateArchitectureDiagram settles (a failure is caught and logged)
DiagramSettles(k) ==
  /\ RunOf(k).pc = "visualizing"
  /\ \E img \in BOOLEAN :
       SetRunOf(k, [RunOf(k) EXCEPT !.pc = "vocalizing",
                                    !.result = WithDiagram(@, img),
                                    !.trail = Append(@, "VOCALIZING")])
  /\ appState' = "VOCALIZING"
  /\ event' = Event("diagramSettles", Null, NoResult, FALSE, FALSE, NoMessage)
  /\ UNCHANGED << svcVars, mounted, callVars, purgeNote, appError, implementation, faults >>

\* generateVocalExplanation settles (a failure is caught and logged)
VocalSettles(k) ==
  /\ RunOf(k).pc = "vocalizing"
  /\ \E audio \in BOOLEAN :
       SetAppOf(k, Complete([AppOf(k) EXCEPT !.run.result = WithAudio(@, audio)]))
  /\ event' = Event("vocalSettles", Null, NoResult, FALSE, FALSE, NoMessage)
  /\ UNCHANGED << mounted, callVars, purgeNote, appError, faults >>

NextOrch ==
  \/ Mount
  \/ Upload
  \/ ReaderLoaded("run")
  \/ AnalysisReturns("run")
  \/ CollaboratorFails("run")
  \/ SynthesisReturns("run")
  \/ RepairReturns("run")
  \/ \E b \in BootIds : EngineLoaded(b)
  \/ \E b \in BootIds : PackagesLoaded(b)
  \/ \E b \in BootIds : OrchBootstrapFails(b)
  \/ RunResumes("run")
  \/ RunDriverReturns("run")
  \/ RunDriverThrows("run")
  \/ DiagramSettles("run")
  \/ VocalSettles("run")

SpecOrch == Init /\ [][NextOrch]_vars

(* --------------------------- App.handleReset ---------------------------- *)
\* a closure that has nothing left to run
Ended(r) == r.pc \in { "idle", "done", "crashed" }

\* handleReset (the header logo, the Reset Loop button): state, implementation
\* and error are cleared.  Nothing cancels the closure of an upload in
\* flight: it goes on as the stale closure.  One stale closure is followed at
\* a time, and the user resets a run in flight before its first execution.
Reset ==
  /\ Ended(run) \/ (Ended(stale) /\ run.calls = 0)
  /\ appState' = "IDLE"
  /\ implementation' = << >>
  /\ appError' = << >>
  /\ run' = NoRun
  /\ stale' = IF ~ Ended(run) THEN run ELSE IF Ended(stale) THEN NoRun ELSE stale
  /\ event' = Event("reset", Null, NoResult, FALSE, FALSE, NoMessage)
  /\ UNCHANGED << svcVars, mounted, callVars, purgeNote, faults >>

\* uploads and resets, with collaborators, bootstraps and driver runs that
\* answer
NextReset ==
  \/ Mount
  \/ Upload
  \/ Reset
  \/ \E b \in BootIds : EngineLoaded(b)
  \/ \E b \in BootIds : PackagesLoaded(b)
  \/ \E k \in Slots : ReaderLoaded(k)
  \/ \E k \in Slots : AnalysisReturns(k)
  \/ \E k \in Slots : SynthesisReturns(k)
  \/ \E k \in Slots : RepairReturns(k)
  \/ \E k \in Slots : RunResumes(k)
  \/ \E k \in Slots : RunDriverReturns(k)
  \/ \E k \in Slots : DiagramSettles(k)
  \/ \E k \in Slots : VocalSettles(k)

SpecReset == Init /\ [][NextReset]_vars

(* ------- the flag-based ExecutionService (services/executionService) ---- *)
\* The service of src/services/executionService.ts guards init() with the
\* boolean isInitializing and has neither initPromise nor isExecuting.

\* the guests of the flag-based driver
FlagPrograms == { "clean", "failsTests", "raises" }

\* the model can serve this call to init()
FlagCanInit(s) ==
  s.pyodide # Null \/ s.isInitializing \/ \E b \in BootIds : s.boot[b] = "unborn"

\* One call of init(), up to its first suspension: it returns at once when
\* the engine handle is set or when the flag is set; else it sets the flag
\* and awaits window.loadPyodide (sync: that call throws, the finally block
\* clears the flag, the promise is rejected).
FlagInit(s, sync) ==
  IF s.pyodide # Null \/ s.isInitializing
  THEN [svc |-> s, settle |-> "resolved", on |-> Null, fresh |-> FALSE]
  ELSE LET b == FreshBoot(s.boot)
       IN  IF sync
           THEN [svc |-> [s EXCEPT !.boot[b] = "failedSync"],
                 settle |-> "rejected", on |-> b, fresh |-> TRUE]
           ELSE [svc |-> [s EXCEPT !.boot[b] = "loadPyodide", !.isInitializing = TRUE],
                 settle |-> "pending", on |-> b, fresh |-> TRUE]

\* runPython after `await this.init()` resolved: this.pyodide.setStdout is
\* outside any try block, so with no engine the TypeError rejects the call
FlagAfterInit(s) ==
  IF s.pyodide = Null
  THEN [svc |-> s, pos |-> "idle", engine |-> Null,
        outcome |-> [kind |-> "rejected", passed |-> FALSE, logs |-> NullDerefMessage,
                     variables |-> "undefined"]]
  ELSE [svc |-> Intercept(s), pos |-> "driver", engine |-> s.pyodide, outcome |-> NoResult]

\* runPython after `await this.init()` rejected with msg: nothing catches it
FlagAfterInitFailed(s, msg) ==
  [svc |-> s, pos |-> "idle", engine |-> Null,
   outcome |-> [kind |-> "rejected", passed |-> FALSE, logs |-> msg,
                variables |-> "undefined"]]

\* what the flag-based driver script prints: the tests run whether or not
\* the candidate raised
FlagDriverOutput(cand, tests) ==
  << "INITIALIZING_CORE..." >>
  \o (IF cand = "raises"
      THEN << "IMPLEMENTATION_ERROR:", "Traceback: candidate", "" >> ELSE << >>)
  \o << "STARTING_TESTS..." >>
  \o (IF tests = "raises"
      THEN << "TEST_CRASH:", "Traceback: tests", "", "VERIFICATION_FAILED" >>
      ELSE << "CORE_LOGIC_VERIFIED" >>)
  \o << "INSPECTOR_SNAPSHOT:" >>

\* the result built when runPythonAsync resolved: the snapshot line is
\* removed, four markers are replaced by nothing (their line stays, empty),
\* the whole is trimmed
FlagParseResult(lines) ==
  LET kept == SelectSeq(lines, LAMBDA l : l # "INSPECTOR_SNAPSHOT:")
      blanked == [i \in 1 .. Len(kept) |->
                    IF kept[i] \in { "CORE_LOGIC_VERIFIED", "VERIFICATION_FAILED",
                                     "STARTING_TESTS...", "INITIALIZING_CORE..." }
                    THEN "" ELSE kept[i]]
  IN  [kind |-> "value",
       passed |-> /\ \E i \in 1 .. Len(lines) : lines[i] = "CORE_LOGIC_VERIFIED"
                  /\ \A i \in 1 .. Len(lines) : lines[i] # "IMPLEMENTATION_ERROR:",
       logs |-> Trim(blanked),
       variables |-> "[]"]

\* the mount effect of App: executionService.init().catch(console.error)
FlagMount ==
  /\ ~ mounted
  /\ FlagCanInit(Svc)
  /\ \E sync \in BOOLEAN :
       LET i == FlagInit(Svc, sync)
       IN  /\ SetSvc(i.svc)
           /\ event' = Event("flagMount", Null, NoResult, TRUE, i.fresh, NoMessage)
  /\ mounted' = TRUE
  /\ UNCHANGED << callVars, purgeNote, appVars >>

\* a client calls runPython(code, tests)
FlagCall(c) ==
  /\ pc[c] = "idle"
  /\ FlagCanInit(Svc)
  /\ \E sync \in BOOLEAN :
       LET i == FlagInit(Svc, sync)
           k == IF i.settle = "resolved" THEN FlagAfterInit(i.svc)
                ELSE IF i.settle = "rejected"
                THEN FlagAfterInitFailed(i.svc, BootMessage(i.svc.boot[i.on]))
                ELSE [svc |-> i.svc, pos |-> "awaitInit", engine |-> Null,
                      outcome |-> NoResult]
       IN  /\ SetSvc(k.svc)
           /\ pc' = [pc EXCEPT ![c] = k.pos]
           /\ awaiting' = [awaiting EXCEPT ![c] = IF k.pos = "awaitInit" THEN i.on ELSE Null]
           /\ driverOn' = [driverOn EXCEPT ![c] = k.engine]
           /\ event' = Event("flagCall", c, k.outcome, TRUE, i.fresh, NoMessage)
  /\ UNCHANGED << mounted, arrived, purgeNote, appVars >>

\* window.loadPyodide resolves for bootstrap b: this.pyodide is assigned
FlagEngineLoaded(b) ==
  /\ boot[b] = "loadPyodide"
  /\ SetSvc(LoadPyodideDone(Svc, b))
  /\ event' = Event("flagEngineLoaded", b, NoResult, FALSE, FALSE, NoMessage)
  /\ UNCHANGED << mounted, callVars, purgeNote, appVars >>

\* pyodide.loadPackage resolves for bootstrap b: the finally block clears the flag
FlagPackagesLoaded(b) ==
  /\ boot[b] = "loadPackage"
  /\ SetSvc([LoadPackageDone(Svc, b) EXCEPT !.isInitializing = FALSE])
  /\ event' = Event("flagPackagesLoaded", b, NoResult, FALSE, FALSE, NoMessage)
  /\ UNCHANGED << mounted, callVars, purgeNote, appVars >>

\* window.loadPyodide or pyodide.loadPackage rejects for bootstrap b: the
\* catch block rethrows, the finally block clears the flag
FlagBootstrapFails(b) ==
  /\ boot[b] \in InFlightStages
  /\ SetSvc([Svc EXCEPT !.isInitializing = FALSE,
                        !.boot[b] = IF boot[b] = "loadPyodide" THEN "failedEngine"
                                    ELSE "failedPackage"])
  /\ event' = Event("flagBootstrapFails", b, NoResult, FALSE, FALSE, NoMessage)
  /\ UNCHANGED << mounted, callVars, purgeNote, appVars >>

\* the promise init() returned to caller c has settled: runPython goes on
FlagResume(c) ==
  /\ pc[c] = "awaitInit"
  /\ boot[awaiting[c]] \notin InFlightStages
  /\ LET k == IF boot[awaiting[c]] = "resolved" THEN FlagAfterInit(Svc)
              ELSE FlagAfterInitFailed(Svc, BootMessage(boot[awaiting[c]]))
     IN  /\ SetSvc(k.svc)
         /\ pc' = [pc EXCEPT ![c] = k.pos]
         /\ driverOn' = [driverOn EXCEPT ![c] = k.engine]
         /\ event' = Event("flagResume", c, k.outcome, FALSE, FALSE, NoMessage)
  /\ awaiting' = [awaiting EXCEPT ![c] = Null]
  /\ UNCHANGED << mounted, arrived, purgeNote, appVars >>

\* runPythonAsync resolves for caller c
FlagDriverReturns(c) ==
  /\ pc[c] = "driver"
  /\ \E p \in FlagPrograms :
       LET g == Guest(p, FALSE)
       IN  event' = [Event("flagDriverReturns", c,
                           FlagParseResult(FlagDriverOutput(g.cand, g.tests)),
                           FALSE, FALSE, NoMessage)
                       EXCEPT !.on = driverOn[c]]
  /\ pc' = [pc EXCEPT ![c] = "idle"]
  /\ driverOn' = [driverOn EXCEPT ![c] = Null]
  /\ UNCHANGED << svcVars, mounted, awaiting, arrived, purgeNote, appVars >>

\* runPythonAsync rejects for caller c: the catch block returns the logs
\* captured so far, a line break and the message
FlagDriverThrows(c) ==
  /\ pc[c] = "driver"
  /\ \E msg \in HostMessages \ { NoMessage } :
       event' = [Event("flagDriverThrows", c,
                       [kind |-> "value", passed |-> FALSE, logs |-> << "" >> \o msg,
                        variables |-> "undefined"],
                       FALSE, FALSE, msg)
                   EXCEPT !.on = driverOn[c]]
  /\ pc' = [pc EXCEPT ![c] = "idle"]
  /\ driverOn' = [driverOn EXCEPT ![c] = Null]
  /\ UNCHANGED << svcVars, mounted, awaiting, arrived, purgeNote, appVars >>

NextFlag ==
  \/ FlagMount
  \/ \E c \in Callers : FlagCall(c)
  \/ \E b \in BootIds : FlagEngineLoaded(b)
  \/ \E b \in BootIds : FlagPackagesLoaded(b)
  \/ \E b \in BootIds : FlagBootstrapFails(b)
  \/ \E c \in Callers : FlagResume(c)
  \/ \E c \in Callers : FlagDriverReturns(c)
  \/ \E c \in Callers : FlagDriverThrows(c)

SpecFlag == Init /\ [][NextFlag]_vars

(* ------------------------------ claims --------------------------------- *)
InFlightCallers == { c \in Callers : pc[c] # "idle" }

\* C1: at most one bootstrap (loadPyodide followed by loadPackage) is in
\* flight at any time, whatever the interleaving of init() calls.
C1_SingleBootstrap == Cardinality(InFlight(boot)) <= 1

\* C2: a caller that arrived while an initialization was in progress does not
\* run the driver script before that initialization has fully completed.
C2_AwaitsInFlightInit ==
  \A c \in Callers : pc[c] = "driver" => \A b \in arrived[c] : boot[b] = "resolved"

\* C3: at most one runPython invocation is between acquiring and releasing
\* the execution lock.
C3_MutualExclusion == Cardinality(InFlightCallers) <= 1

C3_Witness ==
  /\ event.op = "call"
  /\ event.outcome.kind = "rejected"
  /\ \E c \in Callers : c # event.who /\ pc[c] = "driver"

\* C4: a runPython call made while another call is in flight (running the
\* driver or still awaiting the initialization) is rejected with the busy
\* error in the same turn; the call in flight is still in flight.
C4_BusyFailsAtOnce ==
  (event.op = "call" /\ event.contended) =>
    /\ event.outcome.kind = "rejected"
    /\ event.outcome.logs = << "Execution", "lock", "active", "." >>
    /\ pc[event.who] = "idle"
    /\ \E c \in Callers : c # event.who /\ pc[c] # "idle"

C4_Witness ==
  /\ event.op = "call"
  /\ event.contended
  /\ event.outcome.kind = "rejected"
  /\ \E c \in Callers : pc[c] = "awaitInit"

\* C5 as claimed: no runPython call, in any state of the service, rejects.
C5_NeverRejects == event.outcome.kind # "rejected"

\* C5 amended: a runPython call made while the lock is free ends with
\* exactly one result value and never rejects: each of its turns either
\* leaves it in flight with nothing delivered or ends it with a value; only
\* a call made while the lock is held rejects.
C5_TotalWhenFree ==
  /\ event.outcome.kind = "rejected" => (event.op = "call" /\ event.held)
  /\ (\/ event.op = "call" /\ ~event.held
      \/ event.op \in { "resume", "driverReturns", "driverThrows" }) =>
       IF pc[event.who] = "idle"
       THEN event.outcome.kind = "value"
       ELSE event.outcome.kind = "none"

C5_Witness ==
  /\ event.op = "resume"
  /\ event.outcome.kind = "value"
  /\ pyodide = Null
  /\ pc[event.who] = "idle"

\* C6: when no runPython call is in flight the lock is free: every call that
\* took the lock has released it when it settles, on every branch, and a
\* call made when none is in flight is not rejected as busy.
C6_LockAlwaysReleased ==
  /\ InFlightCallers = {} => ~isExecuting
  /\ event.outcome.kind = "value" => ~isExecuting
  /\ (event.op = "call" /\ ~event.contended) => event.outcome.kind # "rejected"

C6_Witness ==
  /\ event.op = "driverThrows"
  /\ event.msg = << "SyntaxError", ":", "invalid", "syntax" >>
  /\ ~isExecuting

\* C7: the first init() after the runtime was purged starts a new bootstrap;
\* it never reuses the discarded engine or a stale promise.
C7_Recovery == purgeNote # "reused"

C7_Witness == purgeNote = "fresh" /\ event.inited /\ event.fresh

\* C8: a host-level throw whose message contains 'table index out of
\* bounds', 'fatal error' or 'RecursionError' leaves the runtime purged when
\* runPython returns, and the result is a failure whose logs begin with
\* FATAL_ENGINE_ERROR.
C8_FatalInvalidates ==
  (/\ event.op = "driverThrows"
   /\ \/ Includes(event.msg, << "table", "index", "out", "of", "bounds" >>)
      \/ Includes(event.msg, << "fatal", "error" >>)
      \/ Includes(event.msg, << "RecursionError" >>)) =>
    /\ pyodide = Null
    /\ initPromise = Null
    /\ event.outcome.kind = "value"
    /\ ~event.outcome.passed
    /\ Head(event.outcome.logs) = "FATAL_ENGINE_ERROR: "

C8_Witness ==
  /\ event.op = "driverThrows"
  /\ Includes(event.msg, << "RecursionError" >>)
  /\ pyodide = Null
  /\ initPromise = Null
  /\ Head(event.outcome.logs) = "FATAL_ENGINE_ERROR: "

\* C9: after a bootstrap failed, at either step, its engine is not the stored
\* handle and its promise is not the stored future.
C9_FailedInitCleared ==
  event.op = "bootstrapFails" => pyodide # event.who /\ initPromise # event.who

\* C10: one orchestration run calls runPython at most 8 times and produces
\* at most 8 history records, whatever the verdicts.
C10_CeilingIsHardCap == run.calls <= 8 /\ Len(run.history) <= 8

C10_Witness ==
  /\ run.pc = "done"
  /\ run.calls = 8
  /\ Len(run.history) = 8
  /\ ~run.passed

LastRecord == run.history[Len(run.history)]

\* a run has ended: it reached the end of reader.onload, or an error left it
RunEnded == run.pc \in { "done", "crashed" }

\* C11: when an orchestration run has ended, its last history record carries
\* an error if and only if the state is ERROR; a run whose last record
\* carries an error never ends in COMPLETED.
C11_ConsistentLabelling ==
  (RunEnded /\ run.history # << >>) =>
    /\ LastRecord.error.present <=> appState = "ERROR"
    /\ LastRecord.error.present => appState # "COMPLETED"

\* C12: a run in which each of the 8 executions failed has exactly 8 history
\* records, ends in ERROR, and the error shown is the logs of iteration 8.
C12_Exhaustion ==
  (RunEnded /\ run.calls = 8 /\ Len(run.history) = run.calls /\ ~run.passed) =>
    /\ Len(run.history) = 8
    /\ appState = "ERROR"
    /\ appError = LastRecord.error.logs

\* C13: when analyzePaper, generateInitialImplementation or
\* refineImplementation fails, the run ends with state ERROR and a message
\* shown, and neither executes nor repairs again.
C13_SynthesisFailureSurfaces ==
  event.op = "collaboratorFails" =>
    /\ appState = "ERROR"
    /\ appError # << >>
    /\ run.pc \notin { "awaitInit", "driver", "refining" }

\* the result of a runPython call that ended with a bootstrap error
BootstrapErrorLogs ==
  { << "FATAL_ENGINE_ERROR: " >> \o m :
      m \in { << "window", ".", "loadPyodide", "is", "not", "a", "function" >>,
              << "Failed", "to", "fetch", "pyodide", ".", "asm", ".", "js" >>,
              << "Failed", "to", "load", "numpy" >> } }

\* C14: when an execution of the run ends with a fatal engine error (a host
\* throw classified as fatal) or a bootstrap error, the run ends in ERROR:
\* no repair is requested for that result and no iteration follows.
C14_FatalTerminates ==
  (\/ /\ event.op = "driverThrows"
      /\ \/ Includes(event.msg, << "table", "index", "out", "of", "bounds" >>)
         \/ Includes(event.msg, << "fatal", "error" >>)
         \/ Includes(event.msg, << "RecursionError" >>)
   \/ /\ event.outcome.kind = "value"
      /\ event.outcome.logs \in BootstrapErrorLogs) =>
    /\ appState = "ERROR"
    /\ run.pc \notin { "refining", "awaitInit", "driver" }

\* Each collaborator call, each bootstrap and each sandbox run eventually
\* returns or fails, and the file reader eventually loads the file.
OrchFairness ==
  /\ WF_vars(ReaderLoaded("run"))
  /\ WF_vars(\/ AnalysisReturns("run") \/ SynthesisReturns("run")
             \/ RepairReturns("run") \/ CollaboratorFails("run"))
  /\ WF_vars(\E b \in BootIds : EngineLoaded(b) \/ PackagesLoaded(b) \/ OrchBootstrapFails(b))
  /\ WF_vars(RunResumes("run"))
  /\ WF_vars(RunDriverReturns("run") \/ RunDriverThrows("run"))
  /\ WF_vars(DiagramSettles("run"))
  /\ WF_vars(VocalSettles("run"))

SpecOrchFair == SpecOrch /\ OrchFairness

\* C15: every orchestration run that was started eventually reaches
\* COMPLETED or ERROR.
C15_RunTerminates ==
  (run.pc = "reading") ~> (appState \in { "COMPLETED", "ERROR" })

C20_NonFatalKeepsRuntime ==
  [][ LET nonFatal(e) ==
            /\ e.op = "driverThrows"
            /\ ~ Includes(e.msg, << "table", "index", "out", "of", "bounds" >>)
            /\ ~ Includes(e.msg, << "fatal", "error" >>)
            /\ ~ Includes(e.msg, << "RecursionError" >>)
      IN  /\ nonFatal(event') =>
              /\ pyodide' = pyodide
              /\ pyodide' # Null
              /\ initPromise' = initPromise
              /\ boot' = boot
              /\ event'.outcome.kind = "value"
              /\ ~ event'.outcome.passed
          /\ (nonFatal(event) /\ event'.op = "call") =>
              /\ ~ event'.fresh
              /\ pyodide' = pyodide
              /\ initPromise' = initPromise
              /\ boot' = boot
              /\ pc'[event'.who] = "driver"
              /\ driverOn'[event'.who] = pyodide ]_vars

C20_Witness ==
  /\ event.op = "driverThrows"
  /\ event.msg = << "Fatal", "Error" >>
  /\ event.outcome.kind = "value"
  /\ pyodide # Null
  /\ ~isExecuting

\* C16: when the driver script has run to its end on an engine whose
\* bootstrap completed, passed is true exactly when neither the candidate
\* block nor the test block raised: a clean candidate with clean tests gives
\* passed = true and a history record without error, and a candidate that
\* raises gives passed = false.
C16_VerdictIffClean ==
  (event.op = "driverReturns" /\ boot[event.on] = "resolved") =>
    /\ event.outcome.passed <=>
         (event.guest.cand = "clean" /\ event.guest.tests = "clean")
    /\ event.guest.cand = "raises" => ~ event.outcome.passed
    /\ (event.guest.cand = "clean" /\ event.guest.tests = "clean") =>
         /\ run.passed
         /\ ~ LastRecord.error.present

\* C17: when a runPython call returns a verdict and the call that returned
\* before it ran the same (code, tests) on the same engine, as the first run
\* of that engine after its bootstrap completed, the two verdicts are equal.
C17_Determinism ==
  (/\ event.op = "driverReturns"
   /\ event.prev.program = event.guest.program
   /\ event.prev.on = event.on) =>
    event.outcome.passed = event.prev.passed

\* C18: once the state is COMPLETED or ERROR, no step of a closure of
\* reader.onload, of the run that set it or of another still in flight,
\* changes it; only handleReset, the user's action, leaves it.
C18_TerminalStates ==
  [][ (appState \in { "COMPLETED", "ERROR" } /\ event'.op # "reset") =>
        appState' = appState ]_vars

\* runPython calls of the run that have not returned
CallsInFlight(r) == r.calls - Len(r.history)

\* C21: within one run the iterations are strictly sequential.  At most one
\* runPython call of the run is in flight; a call starts only in the turn in
\* which the synthesis or the repair request of the iteration before has
\* returned, when the results of all earlier calls are in the history; and no
\* call is in flight while a repair request is out.
C21_Sequential ==
  [][ /\ CallsInFlight(run') \in { 0, 1 }
      /\ run'.pc = "refining" => CallsInFlight(run') = 0
      /\ run'.pc \in { "awaitInit", "driver" } => CallsInFlight(run') = 1
      /\ run'.calls # run.calls =>
            /\ run'.calls = run.calls + 1
            /\ CallsInFlight(run) = 0
            /\ run.repairs = run.calls
            /\ \/ run.pc = "implementing" /\ event'.op = "synthesisReturns" /\ run.calls = 0
               \/ run.pc = "refining" /\ event'.op = "repairReturns" ]_vars

\* the third execution of a run is under way, two results are recorded
C21_Witness ==
  run.pc = "driver" /\ run.calls = 3 /\ Len(run.history) = 2 /\ run.repairs = 2

C23_StopsAtFirstPass ==
  [][ /\ run.passed =>
            /\ run'.passed
            /\ run'.calls = run.calls
            /\ run'.repairs = run.repairs
            /\ run'.history = run.history
      /\ run'.passed =>
            /\ run'.pc \in { "visualizing", "vocalizing", "done" }
            /\ run'.calls = Len(run'.history)
            /\ ~ run'.history[Len(run'.history)].error.present
      /\ \A i \in 1 .. Len(run'.history) - 1 : run'.history[i].error.present
      /\ run'.pc = "done" => run'.repairs = Len(run'.history) - 1 ]_vars

\* a run that passed at its third iteration has ended
C23_Witness ==
  run.pc = "done" /\ run.passed /\ Len(run.history) = 3 /\ run.repairs = 2

\* C24: the history of a run is append-only.  A turn leaves the history as
\* it is or appends one record to it, and it appends exactly when a runPython
\* call of the run returned a result in that turn; the records before stay as
\* they were; the iteration fields are 1, 2, ..., k in order.
C24_AppendOnly ==
  [][ /\ Len(run'.history) \in { Len(run.history), Len(run.history) + 1 }
      /\ SubSeq(run'.history, 1, Len(run.history)) = run.history
      /\ (Len(run'.history) = Len(run.history) + 1) <=> (event'.outcome.kind = "value")
      /\ \A i \in 1 .. Len(run'.history) : run'.history[i].iteration = i
      /\ Len(run'.history) = run'.calls - CallsInFlight(run') ]_vars

\* four records, the fourth just appended to the three before
C24_Witness ==
  /\ Len(run.history) = 4 /\ run.history[4].iteration = 4
  /\ event.outcome.kind = "value"

\* C25: a history record carries an error exactly when the execution of its
\* iteration failed, and the error is then the logs of that result; so every
\* record but the last carries an error.
C25_ErrorIffFailed ==
  /\ event.outcome.kind = "value" =>
        /\ Len(run.history) >= 1
        /\ LastRecord.error.present <=> ~ event.outcome.passed
        /\ LastRecord.error.logs = IF event.outcome.passed THEN << >> ELSE event.outcome.logs
  /\ Len(run.history) >= 1 =>
        /\ LastRecord.error.present <=> ~ run.result.testResults.passed
        /\ LastRecord.error.present => LastRecord.error.logs = run.result.testResults.logs
  /\ \A i \in 1 .. Len(run.history) - 1 : run.history[i].error.present

\* a passing result was just recorded after a failed one
C25_Witness ==
  /\ event.outcome.kind = "value" /\ event.outcome.passed
  /\ Len(run.history) = 2
  /\ run.history[1].error.present /\ ~ run.history[2].error.present

\* C26: the score is non-decreasing along the history: a failed iteration i
\* scores min(95, 20 + 10 * i), a passed one 100.
C26_ScoreMonotone ==
  /\ \A i \in 1 .. Len(run.history) :
        run.history[i].stabilityScore =
          IF run.history[i].error.present
          THEN (IF 20 + 10 * i <= 95 THEN 20 + 10 * i ELSE 95)
          ELSE 100
  /\ \A i \in 1 .. Len(run.history) - 1 :
        run.history[i].stabilityScore <= run.history[i + 1].stabilityScore

\* eight failed iterations: the score rose from 30 to the cap of 95
C26_Witness ==
  /\ Len(run.history) = 8
  /\ run.history[1].stabilityScore = 30
  /\ run.history[7].stabilityScore = 90
  /\ run.history[8].stabilityScore = 95

\* the steps of the state machine a run takes
Transitions ==
  { << "ANALYZING", "IMPLEMENTING" >>, << "IMPLEMENTING", "TESTING" >>,
    << "TESTING", "DEBUGGING" >>, << "DEBUGGING", "TESTING" >>,
    << "TESTING", "VISUALIZING" >>, << "VISUALIZING", "VOCALIZING" >>,
    << "VOCALIZING", "COMPLETED" >>, << "TESTING", "COMPLETED" >> }

\* how many of the first n states the run set are TESTING
Tested(n) == Cardinality({ j \in 1 .. n : run.trail[j] = "TESTING" })

\* C27: the states a run sets follow the state machine.  They start
\* ANALYZING, IMPLEMENTING, TESTING and each next one is a step of the
\* machine; DEBUGGING comes directly after a TESTING whose result failed, and
\* the state set after it is TESTING; a terminal state is the last one set,
\* after a TESTING whose result passed or after the iteration at the ceiling.
C27_StateMachine ==
  LET n == Len(run.trail)
  IN  /\ n >= 1 => run.trail[1] = "ANALYZING" /\ appState = run.trail[n]
      /\ n >= 3 => run.trail[3] = "TESTING"
      /\ \A i \in 1 .. n - 1 : << run.trail[i], run.trail[i + 1] >> \in Transitions
      /\ \A i \in 1 .. n :
            run.trail[i] = "DEBUGGING" =>
              /\ i > 1 /\ run.trail[i - 1] = "TESTING"
              /\ run.history[Tested(i)].error.present
              /\ i < n => run.trail[i + 1] = "TESTING"
      /\ \A i \in 1 .. n :
            run.trail[i] \in { "COMPLETED", "ERROR" } =>
              /\ i = n
              /\ Tested(n) = Len(run.history) /\ Tested(n) >= 1
              /\ run.passed \/ Len(run.history) = 8

\* a Pro run repaired once, passed and went through the enrichment
C27_Witness ==
  run.trail = << "ANALYZING", "IMPLEMENTING", "TESTING", "DEBUGGING", "TESTING",
                 "VISUALIZING", "VOCALIZING", "COMPLETED" >>

\* what a run delivers whatever the enrichment did
Outcome(result) ==
  [code |-> result.code, testResults |-> result.testResults, history |-> result.history]

\* C28: the enrichment phase does not affect the outcome.  Every step of a
\* run in its enrichment, whether the diagram or the audio was generated or
\* not, takes it on towards COMPLETED; its code, testResults and history stay
\* what they were when the loop was left; and the artifact delivered is that
\* result.
C28_EnrichmentHarmless ==
  [][ run.pc \in { "visualizing", "vocalizing" } /\ run' # run =>
        /\ run'.pc = IF run.pc = "visualizing" THEN "vocalizing" ELSE "done"
        /\ Outcome(run'.result) = Outcome(run.result)
        /\ run'.result.history = run.history
        /\ run'.history = run.history
        /\ run'.pc = "done" =>
              appState' = "COMPLETED" /\ implementation' = << run'.result >> ]_vars

\* a Pro run whose diagram and audio both failed has delivered its artifact
C28_Witness ==
  /\ run.pc = "done" /\ run.isPro /\ appState = "COMPLETED"
  /\ ~ run.result.architectureImage /\ ~ run.result.audioData
  /\ implementation = << run.result >>
  /\ Len(implementation[1].history) = 2

C30_CaptureScoped ==
  event.op = "driverReturns" =>
    /\ event.outcome.logs =
         CleanLogs(DriverOutput(event.guest.cand, event.guest.tests, << >>))
    /\ ~ Includes(event.outcome.logs, << "late output" >>)

\* C40: the iterationCount of the artifact a run delivers is the number of
\* its history records.  It is 1 for the first candidate and iteration + 1
\* after each repair, whatever the answer of the repair carried, so it counts
\* the execution under way or last made.
C40_IterationCount ==
  /\ run.pc \in { "awaitInit", "driver" } =>
        run.result.iterationCount = run.calls /\ run.iteration = run.calls
  /\ run.pc \in { "refining", "visualizing", "vocalizing", "done" } =>
        run.result.iterationCount = Len(run.history)
  /\ run.pc = "done" =>
        /\ Len(implementation) = 1
        /\ implementation[1].iterationCount = Len(implementation[1].history)

\* the artifact of a run that passed at its fourth execution
C40_Witness ==
  /\ run.pc = "done" /\ run.passed
  /\ implementation[1].iterationCount = 4
  /\ Len(implementation[1].history) = 4

\* src/unnamed/part_004: `stabilityScore: passed ? 100 : 20 + (iteration * 10)`
StabilityScoreUncapped(passed, iteration) ==
  IF passed THEN 100 ELSE 20 + (iteration * 10)

\* C39: in the loops with ceiling 8 that record a stabilityScore, the score
\* of a failed iteration is below the 100 of a passed one, at every
\* iteration 1..8.
C39_FailedBelowPassed ==
  \A i \in 1 .. Len(run.history) :
    run.history[i].error.present =>
      /\ run.history[i].stabilityScore < 100
      /\ StabilityScoreUncapped(FALSE, run.history[i].iteration)
           < StabilityScoreUncapped(TRUE, run.history[i].iteration)


\* C37: a runPython call rejected as busy changes nothing: the lock was held
\* and stays held, the engine handle, the stored promise, the bootstraps and
\* the interpreters with their interceptors are as before, and the call in
\* flight is where it was, so what it returns is not altered.
C37_BusyChangesNothing ==
  [][(event'.op = "call" /\ event'.outcome.kind = "rejected") =>
       /\ isExecuting
       /\ UNCHANGED << svcVars, callVars, purgeNote >>]_vars

C37_Witness ==
  /\ event.op = "call"
  /\ event.outcome.kind = "rejected"
  /\ isExecuting
  /\ \E c \in Callers : pc[c] = "driver" /\ driverOn[c] = pyodide

\* C38: every result runPython returns from its outer catch (the bootstrap
\* failed inside init, the engine handle was gone, or the driver threw at
\* host level, fatally or not) has passed = false, no variables and logs
\* that begin with "FATAL_ENGINE_ERROR: "; a host-level throw always ends
\* in such a result.
C38_FailureShape ==
  /\ event.op = "driverThrows" => event.outcome.kind = "value"
  /\ (event.op \in { "call", "resume", "driverThrows" } /\ event.outcome.kind = "value") =>
       /\ ~event.outcome.passed
       /\ event.outcome.variables = "undefined"
       /\ Head(event.outcome.logs) = "FATAL_ENGINE_ERROR: "

C38_Witness ==
  /\ event.op = "call"
  /\ event.outcome.kind = "value"
  /\ event.outcome.logs = << "FATAL_ENGINE_ERROR: " >> \o SyncThrowMessage
  /\ event.outcome.variables = "undefined"

C33_TestsOnlyAfterCleanCandidate ==
  (event.op = "driverReturns" /\ event.guest.cand = "raises") =>
    /\ \A i \in 1 .. Len(event.heard) :
         ~ (event.heard[i].tag = "RL_STAGELOG" /\ event.heard[i].text = "STARTING_TESTS")
    /\ ~ event.outcome.passed
    /\ event.outcome.variables = "[]"

\* C34: the logs of every result of a failed run, one that ended in a
\* host-level throw included, hold every untagged line the handlers of the
\* call captured during the run.
C34_FailedLogsKept ==
  (/\ event.op \in { "driverReturns", "driverThrows" }
   /\ event.outcome.kind = "value"
   /\ ~ event.outcome.passed) =>
    \A i \in 1 .. Len(event.heard) :
      (event.heard[i].tag = "" /\ event.heard[i].text # "") =>
        \E j \in 1 .. Len(event.outcome.logs) :
          event.outcome.logs[j] = event.heard[i].text

\* C35: after a reset that abandoned an upload in flight, and until a new
\* upload starts, no turn of the abandoned closure changes the orchestration
\* state or the displayed implementation: the state stays IDLE.
C35_AbandonedRunDiscarded ==
  [][(/\ ~ Ended(stale)
      /\ run.pc = "idle"
      /\ appState = "IDLE"
      /\ event'.op \notin { "upload", "reset" }) =>
       /\ appState' = "IDLE"
       /\ implementation' = implementation]_vars

\* C31: an interpreter holds one global binding set created by runPython
\* while a call runs the driver on it and none otherwise: every call that
\* created its scope has destroyed it when it returns, on every path.
C31_ScopePerCall ==
  \A b \in BootIds : engine[b].scopes = IF Intercepting(b) THEN 1 ELSE 0

\* C36: in the flag-based service no runPython call reaches
\* this.pyodide.setStdout while the pyodide field is null: no call is
\* rejected by the TypeError of that property access.
C36_RuntimeExistsAtUse ==
  ~ (/\ event.op \in { "flagCall", "flagResume" }
     /\ event.outcome.kind = "rejected"
     /\ event.outcome.logs = NullDerefMessage)

====
